---- MODULE Spec2Model ----
(***************************************************************************)
(* Model of js/script.js: the 9-day gallery of the space explorer page.    *)
(*                                                                         *)
(* Time values are those of the JavaScript Date object, counted in minutes *)
(* since 1970-01-01T00:00Z instead of milliseconds (every offset and every *)
(* daylight-saving change of a real host is a whole number of minutes).    *)
(* A string is a record: [y, m, d] is the text "YYYY-MM-DD" of a calendar  *)
(* date, [text |-> s] is any other text.                                   *)
(***************************************************************************)
EXTENDS Integers, Sequences, FiniteSets, TLC

VARIABLES
    host,          \* the host's time-zone rule: [before, after, at]
    getImageBtn,   \* whether document.getElementById('getImageBtn') is an element
    loadingEl,     \* whether document.getElementById('loading') is an element
    startValue,    \* startDateInput.value
    btnDisabled,   \* getImageBtn.disabled
    loadingHidden, \* loadingEl.hidden
    runs,          \* the invocations of handleFetch, in the order they started
    gallery,       \* what renderGallery last put in galleryEl, and for which run
    window,        \* the completion of nineDatesFrom in the run that ended last
    last           \* what the run of handleFetch that ended last did (see NoRun);
                   \* both are forgotten when another run starts

vars == <<host, getImageBtn, loadingEl, startValue, btnDisabled, loadingHidden,
          runs, gallery, window, last>>

(***************************************************************************)
(* Bounds of the model.                                                    *)
(***************************************************************************)
\* Spec invokes handleFetch at most this many times in a behaviour.
MaxRuns == 2
\* FeedSpec invokes handleFetch at most this many times in a behaviour.
FeedRuns == 1
\* The feeds FeedSpec tries are all arrays of at most this many entries, and the
\* long ones.
MaxFeed == 2
\* The long feeds have one entry per day for this many days past the window's length.
LongFeedExtra == 2
\* The start dates of WindowSpec are the days of this many years from 2020 on.
WindowYears == 1

(***************************************************************************)
(* Program constants.                                                      *)
(***************************************************************************)
\* for (let i = 0; i < 9; i++)
WindowLen == 9

\* The time value of an Invalid Date (NaN); every valid one modelled is >= 0.
NaN == -1

\* What formatDate gives when toISOString throws its RangeError (an Invalid Date).
Thrown == [err |-> "RangeError"]

\* The completion of a call that gives an array or a Map: normal, or abrupt.
Normal(v) == [threw |-> FALSE, value |-> v]
Abrupt == [threw |-> TRUE, value |-> <<>>]

EmptyString == [text |-> ""]
NotADate == [text |-> "not-a-date"]
IsoString(y, m, d) == [y |-> y, m |-> m, d |-> d]
IsIso(s) == DOMAIN s = {"y", "m", "d"}

(***************************************************************************)
(* The calendar of the Date object (ECMA-262, "Date Objects"): days since  *)
(* the epoch, months 0..11.                                                *)
(***************************************************************************)
DayFromYear(y) ==
    365 * (y - 1970) + ((y - 1969) \div 4) - ((y - 1901) \div 100) + ((y - 1601) \div 400)

InLeapYear(y) == (y % 4 = 0) /\ ((y % 100 # 0) \/ (y % 400 = 0))

DaysInMonth(y, mo) ==
    IF mo = 1 THEN (IF InLeapYear(y) THEN 29 ELSE 28)
    ELSE IF mo \in {3, 5, 8, 10} THEN 30 ELSE 31

\* The day within the year on which month mo (0..11) begins.
DaysBeforeMonth(y, mo) ==
    <<0, 31, 59, 90, 120, 151, 181, 212, 243, 273, 304, 334>>[mo + 1]
        + (IF mo > 1 /\ InLeapYear(y) THEN 1 ELSE 0)

\* MakeDay(year, month, date) for a month in 0..11; date may run past the month.
MakeDay(y, mo, dt) == DayFromYear(y) + DaysBeforeMonth(y, mo) + dt - 1

Day(t) == t \div 1440
TimeWithinDay(t) == t % 1440

YearFromTime(t) ==
    LET y0 == 1970 + (Day(t) \div 366)
    IN  CHOOSE y \in y0 .. (y0 + 2) : DayFromYear(y) <= Day(t) /\ Day(t) < DayFromYear(y + 1)

\* The month (0..11) holding day n (0..365) of year y.
MonthOfDay(y, n) ==
    CHOOSE mo \in 0 .. 11 :
        DaysBeforeMonth(y, mo) <= n /\ n < DaysBeforeMonth(y, mo) + DaysInMonth(y, mo)

DayWithinYear(t) == Day(t) - DayFromYear(YearFromTime(t))

MonthFromTime(t) == MonthOfDay(YearFromTime(t), DayWithinYear(t))

DateFromTime(t) ==
    DayWithinYear(t) - DaysBeforeMonth(YearFromTime(t), MonthFromTime(t)) + 1

(***************************************************************************)
(* The host's local time.  A host h observes the offset h.before (minutes  *)
(* east of UTC) until the instant h.at and h.after from then on; a host    *)
(* without daylight saving has before = after.                             *)
(***************************************************************************)
\* LocalTZA(t, true): the offset in force at the UTC instant t.
OffsetAtUTC(h, t) == IF t < h.at THEN h.before ELSE h.after

\* LocalTZA(t, false): the offset by which the local time t is read; a local time
\* that is skipped or repeated is read with the offset before the change.
OffsetAtLocal(h, t) ==
    IF t - h.before < h.at THEN h.before
    ELSE IF t - h.after >= h.at THEN h.after
    ELSE h.before

LocalTime(h, t) == t + OffsetAtUTC(h, t)
UTC(h, t) == t - OffsetAtLocal(h, t)

(***************************************************************************)
(* The Date operations the script uses.                                    *)
(***************************************************************************)
\* new Date(s) for a string s: a date-only ISO text is UTC midnight of that day,
\* any other text modelled is an Invalid Date.
DateParse(s) == IF IsIso(s) THEN MakeDay(s.y, s.m - 1, s.d) * 1440 ELSE NaN

\* Date.prototype.getDate: the day of the month in local time.
getDate(h, t) == IF t = NaN THEN NaN ELSE DateFromTime(LocalTime(h, t))

\* MakeDate(MakeDay(YearFromTime(lt), MonthFromTime(lt), dt), TimeWithinDay(lt))
\* for the local time lt.
WithDate(lt, dt) ==
    MakeDay(YearFromTime(lt), MonthFromTime(lt), dt) * 1440 + TimeWithinDay(lt)

\* Date.prototype.setDate(dt) on the time value t: the new time value.
setDate(h, t, dt) ==
    IF t = NaN \/ dt = NaN THEN NaN ELSE UTC(h, WithDate(LocalTime(h, t), dt))

\* Date.prototype.toISOString().slice(0, 10): the UTC date, or a RangeError.
toISODate(t) ==
    IF t = NaN THEN Thrown
    ELSE IsoString(YearFromTime(t), MonthFromTime(t) + 1, DateFromTime(t))

\* formatDate(date) for a Date object holding the time value t.
formatDate(t) == toISODate(t)

\* formatDate(date) for a string: new Date(date), then the same.
formatDateString(s) == toISODate(DateParse(s))

\* JavaScript's start.getDate() + i.
PlusNumber(n, i) == IF n = NaN THEN NaN ELSE n + i

RECURSIVE PushDates(_, _, _, _)

\* arr.push(str) in pass i of the loop, str being formatDate(d); abrupt when
\* formatDate threw.
PushDate(h, arr, start, i, str) ==
    IF str = Thrown THEN Abrupt ELSE PushDates(h, Append(arr, str), start, i + 1)

\* The loop of nineDatesFrom from its pass i on, arr holding the strings pushed
\* so far: d = new Date(start); d.setDate(start.getDate() + i); arr.push(formatDate(d)).
PushDates(h, arr, start, i) ==
    IF i >= WindowLen THEN Normal(arr)
    ELSE PushDate(h, arr, start, i,
                  formatDate(setDate(h, start, PlusNumber(getDate(h, start), i))))

\* nineDatesFrom(startIso) on host h: the 9 strings; abrupt when formatDate throws.
nineDatesFrom(h, startIso) == PushDates(h, <<>>, DateParse(startIso), 0)

(***************************************************************************)
(* The feed: what the network gives, and what fetchClassFeed makes of it.  *)
(* An entry is [date, title]; the title tells the entries of a feed apart. *)
(* A response is [kind, body]:                                             *)
(*   "rejected"  fetch() rejects (network failure)                         *)
(*   "status"    res.ok is false                                           *)
(*   "badJson"   res.json() rejects                                        *)
(*   "notArray"  the body is JSON but no array                             *)
(*   "array"     the body is the array body                                *)
(***************************************************************************)
RECURSIVE MapItems(_, _, _)

\* The callback of json.map on item i, str being formatDate(item.date).
MapItem(out, body, i, str) ==
    IF str = Thrown THEN Abrupt
    ELSE MapItems(Append(out, [date |-> str, title |-> body[i].title]), body, i + 1)

\* json.map(item => ({ ...item, date: formatDate(item.date) })) from item i on,
\* out holding the items mapped so far; abrupt when formatDate throws on an item.
MapItems(out, body, i) ==
    IF i > Len(body) THEN Normal(out)
    ELSE MapItem(out, body, i, formatDateString(body[i].date))

NormalizeFeed(body) == MapItems(<<>>, body, 1)

\* The try block of fetchClassFeed once the body is an array, c being the
\* completion of json.map: its catch block returns [].
MappedOrEmpty(c) == IF c.threw THEN <<>> ELSE c.value

\* fetchClassFeed(): the array it resolves to; every failure is caught inside it.
fetchClassFeed(resp) ==
    IF resp.kind = "rejected" THEN <<>>
    ELSE IF resp.kind = "status" THEN <<>>
    ELSE IF resp.kind = "badJson" THEN <<>>
    ELSE IF resp.kind = "notArray" THEN <<>>
    ELSE MappedOrEmpty(NormalizeFeed(resp.body))

\* A string is truthy unless it is empty.
Truthy(s) == s # EmptyString

\* feedByDate.set(key, entry): the entry set last replaces the one held for key.
MapSet(m, key, entry) == (key :> entry) @@ m

RECURSIVE FeedByDateFrom(_, _, _)

\* feedByDate.set(formatDate(entry.date), entry) for entry i, key being
\* formatDate(entry.date).
SetEntry(feed, i, m, key) ==
    IF key = Thrown THEN Abrupt ELSE FeedByDateFrom(feed, i + 1, MapSet(m, key, feed[i]))

\* feed.forEach(entry => { if (entry && entry.date) feedByDate.set(formatDate(entry.date), entry) })
\* from entry i on, into the Map m; abrupt when formatDate throws.
FeedByDateFrom(feed, i, m) ==
    IF i > Len(feed) THEN Normal(m)
    ELSE IF ~Truthy(feed[i].date) THEN FeedByDateFrom(feed, i + 1, m)
    ELSE SetEntry(feed, i, m, formatDateString(feed[i].date))

feedByDate(feed) == FeedByDateFrom(feed, 1, <<>>)

\* wantedDates.map(date => feedByDate.get(date)).filter(Boolean), from date i on.
RECURSIVE ResultsFrom(_, _, _)
ResultsFrom(wantedDates, m, i) ==
    IF i > Len(wantedDates) THEN <<>>
    ELSE IF wantedDates[i] \in DOMAIN m
         THEN <<m[wantedDates[i]]>> \o ResultsFrom(wantedDates, m, i + 1)
         ELSE ResultsFrom(wantedDates, m, i + 1)

\* The entries held in the Map m, whatever their keys.
RECURSIVE EntriesOf(_, _)
EntriesOf(m, keys) ==
    IF keys = {} THEN <<>>
    ELSE <<m[CHOOSE k \in keys : TRUE]>> \o EntriesOf(m, keys \ {CHOOSE k \in keys : TRUE})

\* A projection that forgets the window: every entry of the lookup is a result.
ResultsUnprojected(wantedDates, m) == EntriesOf(m, DOMAIN m)

Results(wantedDates, m) == ResultsFrom(wantedDates, m, 1)

\* renderGallery(items): the tiles put in galleryEl (none: the placeholder).
renderGallery(items) == SubSeq(items, 1, IF Len(items) < 9 THEN Len(items) ELSE 9)

\* A setLoading that writes `disabled = true` whatever show is.
setLoadingAlwaysDisables(show) ==
    IF ~loadingEl \/ ~getImageBtn THEN btnDisabled ELSE TRUE

\* A setLoading that writes `disabled = !show`.
setLoadingInverted(show) ==
    IF ~loadingEl \/ ~getImageBtn THEN btnDisabled ELSE ~show

\* setLoading(show): the button's disabled flag after the call.
setLoadingDisabled(show) ==
    IF ~loadingEl \/ ~getImageBtn THEN btnDisabled ELSE show

\* setLoading(show): the loading indicator's hidden flag after the call.
setLoadingHidden(show) ==
    IF ~loadingEl \/ ~getImageBtn THEN loadingHidden ELSE ~show

(***************************************************************************)
(* What one run of handleFetch did, kept for the run that ended last.      *)
(*   fetched: whether it called fetch()                                    *)
(*   threw:   "none", or what threw into the catch block: "lookup" (the    *)
(*            forEach filling feedByDate) or "window" (nineDatesFrom)      *)
(*   alert:   "none", "choose" (no start date) or "error" (the catch block)*)
(***************************************************************************)
NoRun ==
    [run |-> 0, startIso |-> EmptyString, fetched |-> FALSE,
     resp |-> [kind |-> "none", body |-> <<>>], feed |-> <<>>,
     results |-> <<>>, rendered |-> FALSE, alert |-> "none", threw |-> "none"]

\* No call of nineDatesFrom yet.
NoCall == [threw |-> FALSE, value |-> <<>>]

\* handleFetch from `const results = ...` to its end: the projection of the
\* lookup m on the window wantedDates, renderGallery, or the catch block.
Project(startIso, resp, feed, m, wantedDates) ==
    [run |-> 0, startIso |-> startIso, fetched |-> TRUE, resp |-> resp, feed |-> feed,
     results |-> IF m.threw \/ wantedDates.threw THEN <<>>
                 ELSE Results(wantedDates.value, m.value),
     rendered |-> ~(m.threw \/ wantedDates.threw),
     alert |-> IF m.threw \/ wantedDates.threw THEN "error" ELSE "none",
     threw |-> IF m.threw THEN "lookup" ELSE IF wantedDates.threw THEN "window" ELSE "none"]

\* handleFetch from `const feedByDate = new Map()` on, feed being the array that
\* fetchClassFeed resolved to.
Reconcile(h, startIso, resp, feed) ==
    [did |-> Project(startIso, resp, feed, feedByDate(feed), nineDatesFrom(h, startIso)),
     window |-> nineDatesFrom(h, startIso)]

\* handleFetch on host h from the resumption after `await fetchClassFeed()` to
\* its end, started with startIso, the network having answered resp.
Outcome(h, startIso, resp) == Reconcile(h, startIso, resp, fetchClassFeed(resp))

(***************************************************************************)
(* The values the environment supplies.                                    *)
(***************************************************************************)
\* The hosts of Spec and FeedSpec: UTC; New York, whose clocks go forward at
\* 2021-03-14T07:00Z; Kolkata, at UTC+5:30 all year.
Hosts ==
    { [before |-> 0, after |-> 0, at |-> 0],
      [before |-> -300, after |-> -240, at |-> MakeDay(2021, 2, 14) * 1440 + 420],
      [before |-> 330, after |-> 330, at |-> 0] }

\* The texts the start-date input may hold.
ValidStarts == { IsoString(2021, 3, 10) }
StartValues == ValidStarts \cup { EmptyString, NotADate }

\* The date fields of the feed entries tried: two days of the window of
\* 2021-03-10, a day after it, and a text that is no date.
EntryDates ==
    { IsoString(2021, 3, 12), IsoString(2021, 3, 14), IsoString(2021, 3, 21), NotADate }

\* Every array of n entries over EntryDates, entry i titled i.
FeedsOfLen(n) ==
    { [i \in 1 .. n |-> [date |-> f[i], title |-> i]] : f \in [1 .. n -> EntryDates] }

\* One entry per day for n days from day number d0, in ascending or descending order.
LongFeed(d0, n, ascending) ==
    [i \in 1 .. n |->
        [date |-> toISODate((IF ascending THEN d0 + i - 1 ELSE d0 + n - i) * 1440),
         title |-> i]]

\* One entry per day from 2021-03-09 on, for more days than the window has.
LongFeeds ==
    { LongFeed(MakeDay(2021, 2, 9), WindowLen + LongFeedExtra, asc) : asc \in BOOLEAN }

Bodies == (UNION { FeedsOfLen(n) : n \in 0 .. MaxFeed }) \cup LongFeeds

\* The feeds Spec tries: the empty one and those of one entry.
PageBodies == { b \in Bodies : Len(b) <= 1 }

Failures == { [kind |-> k, body |-> <<>>] : k \in {"rejected", "status", "badJson", "notArray"} }

Responses == Failures \cup { [kind |-> "array", body |-> b] : b \in Bodies }

\* Outcome for every host, start date and response tried, worked out once.
OutcomeOf ==
    [h \in Hosts, s \in StartValues \ {EmptyString}, resp \in Responses |->
        Outcome(h, s, resp)]

(***************************************************************************)
(* The page.                                                               *)
(***************************************************************************)
\* After DOMContentLoaded: init() has written a default start date.
Init ==
    /\ host \in Hosts
    /\ getImageBtn \in BOOLEAN
    /\ loadingEl \in BOOLEAN
    /\ startValue \in ValidStarts
    /\ btnDisabled = FALSE
    /\ loadingHidden = TRUE
    /\ runs = <<>>
    /\ gallery = [run |-> 0, started |-> 0, tiles |-> <<>>]
    /\ window = NoCall
    /\ last = NoRun

\* The user types or picks another start date.
EditStart(v) ==
    /\ v # startValue
    /\ startValue' = v
    /\ UNCHANGED <<host, getImageBtn, loadingEl, btnDisabled, loadingHidden,
                   runs, gallery, window, last>>

\* A click on the button: handleFetch up to its first await, or to its end when
\* no start date is chosen.  What the earlier run did is forgotten.
Click(limit) ==
    /\ getImageBtn
    /\ ~btnDisabled
    /\ Len(runs) < limit
    /\ window' = NoCall
    /\ IF ~Truthy(startValue)
       THEN /\ runs' = Append(runs, [pc |-> "done"])
            /\ last' = [NoRun EXCEPT !.run = Len(runs) + 1, !.alert = "choose"]
            /\ btnDisabled' = setLoadingDisabled(FALSE)
            /\ loadingHidden' = setLoadingHidden(FALSE)
       ELSE /\ runs' = Append(runs, [pc |-> "fetch", startIso |-> startValue])
            /\ last' = NoRun
            /\ btnDisabled' = setLoadingDisabled(TRUE)
            /\ loadingHidden' = setLoadingHidden(TRUE)
    /\ UNCHANGED <<host, getImageBtn, loadingEl, startValue, gallery>>

\* The effects of the rest of handleFetch for run r, o being what it computed:
\* renderGallery(results) unless it threw, then finally setLoading(false).
Settle(r, o) ==
    /\ runs' = [runs EXCEPT ![r] = [pc |-> "done"]]
    /\ last' = [o.did EXCEPT !.run = r]
    /\ window' = IF o.did.threw = "lookup" THEN window ELSE o.window
    /\ gallery' = IF o.did.rendered
                  THEN [run |-> r, started |-> Len(runs),
                        tiles |-> renderGallery(o.did.results)]
                  ELSE gallery
    /\ btnDisabled' = setLoadingDisabled(FALSE)
    /\ loadingHidden' = setLoadingHidden(FALSE)
    /\ UNCHANGED <<host, getImageBtn, loadingEl, startValue>>

\* The rest of handleFetch for run r once fetchClassFeed has resolved.
Finish(r, resp) == Settle(r, OutcomeOf[host, runs[r].startIso, resp])

\* fetch() settles for run r: it rejects, or answers with a status.
FetchSettles(r) ==
    /\ r \in 1 .. Len(runs)
    /\ runs[r].pc = "fetch"
    /\ \/ Finish(r, [kind |-> "rejected", body |-> <<>>])
       \/ Finish(r, [kind |-> "status", body |-> <<>>])
       \/ /\ runs' = [runs EXCEPT ![r].pc = "json"]
          /\ UNCHANGED <<host, getImageBtn, loadingEl, startValue, btnDisabled,
                         loadingHidden, gallery, window, last>>

\* res.json() settles for run r: it rejects, or gives a value, an array among
\* bodies if it is one.
JsonSettles(r, bodies) ==
    /\ r \in 1 .. Len(runs)
    /\ runs[r].pc = "json"
    /\ \/ Finish(r, [kind |-> "badJson", body |-> <<>>])
       \/ Finish(r, [kind |-> "notArray", body |-> <<>>])
       \/ \E body \in bodies : Finish(r, [kind |-> "array", body |-> body])

\* The page: up to MaxRuns clicks, whenever the button lets them through.
Next ==
    \/ \E v \in StartValues : EditStart(v)
    \/ Click(MaxRuns)
    \/ \E r \in 1 .. MaxRuns : FetchSettles(r)
    \/ \E r \in 1 .. MaxRuns : JsonSettles(r, PageBodies)

Spec == Init /\ [][Next]_vars

\* The reconciliation: up to FeedRuns clicks, the feed being any of Bodies.
FeedNext ==
    \/ \E v \in StartValues : EditStart(v)
    \/ Click(FeedRuns)
    \/ \E r \in 1 .. FeedRuns : FetchSettles(r)
    \/ \E r \in 1 .. FeedRuns : JsonSettles(r, Bodies)

FeedSpec == Init /\ [][FeedNext]_vars

(***************************************************************************)
(* nineDatesFrom alone: every start date of WindowYears years, on hosts of *)
(* many offsets, without and with a daylight-saving change.                *)
(***************************************************************************)
WindowStarts ==
    { toISODate(n * 1440) :
        n \in MakeDay(2020, 0, 1) .. (MakeDay(2020 + WindowYears, 0, 1) - 1) }

\* UTC-12, New York, Newfoundland, UTC, Paris, Kathmandu, Adelaide, UTC+14.
FixedHosts ==
    { [before |-> o, after |-> o, at |-> 0] :
        o \in {-720, -300, -210, 0, 60, 345, 570, 840} }

\* Clocks going forward or back by one hour at 01:00Z, 07:00Z or 16:00Z of
\* 2020-03-08 or 2020-10-25.
ChangingHosts ==
    { [before |-> o, after |-> o + c, at |-> day * 1440 + m] :
        o \in {-300, 0, 60, 570}, c \in {60, -60},
        day \in { MakeDay(2020, 2, 8), MakeDay(2020, 9, 25) }, m \in {60, 420, 960} }

WindowHosts == FixedHosts \cup ChangingHosts

WindowInit ==
    /\ host \in WindowHosts
    /\ getImageBtn = TRUE
    /\ loadingEl = TRUE
    /\ startValue \in WindowStarts
    /\ btnDisabled = FALSE
    /\ loadingHidden = TRUE
    /\ runs = <<>>
    /\ gallery = [run |-> 0, started |-> 0, tiles |-> <<>>]
    /\ window = NoCall
    /\ last = NoRun

\* nineDatesFrom(startValue) is called.
CallNineDatesFrom ==
    /\ window = NoCall
    /\ window' = nineDatesFrom(host, startValue)
    /\ UNCHANGED <<host, getImageBtn, loadingEl, startValue, btnDisabled,
                   loadingHidden, runs, gallery, last>>

WindowNext == CallNineDatesFrom

WindowSpec == WindowInit /\ [][WindowNext]_vars

(***************************************************************************)
(* What the claims speak of.                                               *)
(***************************************************************************)
Range(seq) == { seq[i] : i \in 1 .. Len(seq) }

\* The calendar day after the date s, by the calendar alone.
NextDay(s) ==
    IF s.d < DaysInMonth(s.y, s.m - 1) THEN IsoString(s.y, s.m, s.d + 1)
    ELSE IF s.m < 12 THEN IsoString(s.y, s.m + 1, 1)
    ELSE IsoString(s.y + 1, 1, 1)

\* The n consecutive calendar dates from s on, ascending.
RECURSIVE DatesFrom(_, _)
DatesFrom(s, n) == IF n = 0 THEN <<>> ELSE <<s>> \o DatesFrom(NextDay(s), n - 1)

\* D, D+1, ..., D+8.
CalendarWindow(s) == DatesFrom(s, 9)

\* The positions of the entries of body dated d.
Dated(body, d) == { i \in 1 .. Len(body) : body[i].date = d }

\* The last of a non-empty set of positions.
Latest(S) == CHOOSE i \in S : \A j \in S : j <= i

\* Walking the dates in order, the entry of body for each date that has one
\* (the last one, when several have the date).
RECURSIVE Walk(_, _, _)
Walk(dates, body, k) ==
    IF k > Len(dates) THEN <<>>
    ELSE IF Dated(body, dates[k]) = {} THEN Walk(dates, body, k + 1)
    ELSE <<body[Latest(Dated(body, dates[k]))]>> \o Walk(dates, body, k + 1)

\* The runs of handleFetch that have started and not ended.
InFlight == { r \in 1 .. Len(runs) : runs[r].pc # "done" }

\* The positions of the results dated d.
ResultsDated(d) == { k \in 1 .. Len(last.results) : last.results[k].date = d }

(***************************************************************************)
(* The window (WindowSpec).                                                *)
(***************************************************************************)
\* C1: for every valid start date D, nineDatesFrom(D) is a sequence of exactly 9
\* date strings, the i-th being the calendar date D + i days, in ascending order
\* from D to D + 8.
C1_NineConsecutiveDates ==
    window # NoCall => window = Normal(CalendarWindow(startValue))

\* C2: on a host whose clocks change, wherever the change falls, the window
\* still holds 9 dates, none of them repeated and none of D .. D+8 skipped.
C2_NoDateRepeatedOrSkipped ==
    (window # NoCall /\ host.before # host.after) =>
        /\ ~window.threw
        /\ Len(window.value) = 9
        /\ \A i, j \in 1 .. Len(window.value) :
               i # j => window.value[i] # window.value[j]
        /\ Range(CalendarWindow(startValue)) \subseteq Range(window.value)

\* On a host whose clocks never change the window is D .. D+8, whatever its offset.
WindowOnFixedOffsetHost ==
    (window # NoCall /\ host.before = host.after) =>
        window = Normal(CalendarWindow(startValue))

\* A call on a host whose clocks never change has returned.
FixedOffsetHostCalled == window # NoCall /\ host.before = host.after /\ host.before # 0

(***************************************************************************)
(* The reconciliation (FeedSpec).                                            *)
(***************************************************************************)
\* C3: the result handleFetch passes to renderGallery holds at most 9 entries,
\* and the date of each of them is one of the dates of the window computed from
\* the run's start date.
C3_ResultsWithinWindow ==
    last.rendered =>
        /\ Len(last.results) <= 9
        /\ \A k \in 1 .. Len(last.results) :
               last.results[k].date \in Range(window.value)

\* A feed of more than 9 entries has given a full result of 9.
C3_FullWindowFromLongFeed ==
    last.rendered /\ Len(last.resp.body) > 9 /\ Len(last.results) = 9

\* C4: the result is exactly what walking the 9 dates D .. D+8 in ascending order
\* gives, emitting the feed's entry for each date that has one, in whatever
\* order the feed lists its entries.
C4_ResultsInWindowOrder ==
    last.rendered =>
        last.results = Walk(CalendarWindow(last.startIso), last.resp.body, 1)

\* On a host whose clocks never change and with a feed whose dates all parse,
\* the result is that walk (and so holds one entry, the last listed, for a date
\* that several entries have).
ReconciliationWithoutFaults ==
    (/\ last.rendered
     /\ host.before = host.after
     /\ \A i \in 1 .. Len(last.resp.body) : IsIso(last.resp.body[i].date)) =>
        last.results = Walk(CalendarWindow(last.startIso), last.resp.body, 1)

\* C5: when several entries of the feed have the same date and that date is in
\* the window, the result holds exactly one entry for the date, and it is the
\* one listed last in the feed.
C5_LastDuplicateWins ==
    last.rendered =>
        \A d \in Range(window.value) :
            Cardinality(Dated(last.resp.body, d)) >= 2 =>
                /\ Cardinality(ResultsDated(d)) = 1
                /\ \A k \in ResultsDated(d) :
                       last.results[k] = last.resp.body[Latest(Dated(last.resp.body, d))]

\* C6: when the network fails, the status is not a success, or the body is no
\* array, the run goes on with an empty feed: the result is empty and
\* handleFetch shows no error alert.
C6_LoaderFailureIsQuiet ==
    (last.fetched /\ last.resp.kind \in {"rejected", "status", "notArray"}) =>
        /\ last.feed = <<>>
        /\ last.results = <<>>
        /\ last.alert = "none"

\* In those cases the loader does resolve to an empty feed, and the lookup built
\* from it does not throw.
LoaderResolvesEmpty ==
    (last.fetched /\ last.resp.kind \in {"rejected", "status", "notArray"}) =>
        last.feed = <<>> /\ last.threw # "lookup"

\* C7: in a feed with an entry whose date cannot be parsed, every entry whose
\* date can be parsed and is in the window is still in the result.
C7_UnparseableEntryIsLocal ==
    (last.fetched /\ \E i \in 1 .. Len(last.resp.body) : ~IsIso(last.resp.body[i].date)) =>
        \A i \in 1 .. Len(last.resp.body) :
            (IsIso(last.resp.body[i].date) /\ last.resp.body[i].date \in Range(window.value)) =>
                ResultsDated(last.resp.body[i].date) # {}

C9_InvalidStartStopsEarly ==
    (last.run >= 1 /\ ~IsIso(last.startIso)) =>
        ~last.fetched /\ window = NoCall

\* C10: on a page with both the button and the loading indicator, at most one
\* run is in flight at any time, so the run that renders the gallery is the run
\* started last.
C10_OneRunAtATime ==
    (getImageBtn /\ loadingEl) =>
        /\ Cardinality(InFlight) <= 1
        /\ gallery.run > 0 => gallery.run = gallery.started

\* Two runs have followed one another, and the second has rendered the gallery.
C10_SecondRunRendered ==
    getImageBtn /\ loadingEl /\ Len(runs) = 2 /\ InFlight = {} /\ gallery.run = 2

====
